---- MODULE Spec2Model ----
(***************************************************************************)
(* Model of src/src/index.tsx: posts kept in window.localStorage under the *)
(* key "posts", read through two TanStack Query hooks (usePosts, usePost)  *)
(* and written by one mutation (useAddPost).                               *)
(*                                                                         *)
(* A tab is one JavaScript event loop with its own QueryClient.  A         *)
(* synchronous stretch of code runs to completion inside its tab; an       *)
(* `await` and the library's promise plumbing are points where other work  *)
(* of the same tab may run.  localStorage is shared by all tabs, so its    *)
(* getItem and setItem calls are the steps that interleave across tabs.    *)
(***************************************************************************)
EXTENDS Integers, Sequences, FiniteSets, TLC

VARIABLES
    storage,      \* localStorage item "posts": [present, text]
    postsQuery,   \* per tab: cache entry of query key ["posts"]
    postQuery,    \* per tab, per id: cache entry of query key ["post", id]
    pcList,       \* per tab: position of the running usePosts fetch
    resList,      \* per tab: outcome the usePosts queryFn settled with
    pcPost,       \* per tab, per id: position of the running usePost fetch
    resPost,      \* per tab, per id: outcome the usePost queryFn settled with
    mutation,     \* per tab: [status, variables, response] of useAddPost
    pcMut,        \* per tab: position inside mutate()
    postId,       \* per tab: App's postId state
    hist          \* history: initial storage item, restored flag, posts added

vars == <<storage, postsQuery, postQuery, pcList, resList, pcPost, resPost,
          mutation, pcMut, postId, hist>>

----------------------------------------------------------------------------
(* Bounds *)

MaxAdds == 2

----------------------------------------------------------------------------
(* Program constants *)

NoSelection == -1

DefaultRetry == 3

Tabs == {"A", "B"}

FirstTab == "A"

Ids == {0, 1}

Titles == {"hello 0", "hello 1"}

MkPost(id, title) == [id |-> id, title |-> title, body |-> "yoo"]

NoPost == [id |-> NoSelection, title |-> "", body |-> ""]

\* The posts the "ANOTHA ONE" button can build: id and the number in the
\* title come from two separate Math.random() calls.
NewPosts == {MkPost(0, "hello 1"), MkPost(1, "hello 0"), MkPost(1, "hello 1")}

----------------------------------------------------------------------------
(* JavaScript values held by the cache and returned by the query functions *)

Undefined == [kind |-> "undefined", items |-> <<>>]

Null == [kind |-> "null", items |-> <<>>]

Arr(s) == [kind |-> "array", items |-> s]

Obj(p) == [kind |-> "object", items |-> <<p>>]

----------------------------------------------------------------------------
(* Serialized text: a sequence of tokens *)

IdStr(n) == CASE n = 0 -> "0" [] n = 1 -> "1" [] OTHER -> "-1"

StrId(s) == CASE s = "0" -> 0 [] s = "1" -> 1 [] OTHER -> NoSelection

PostText(p) == <<"{", IdStr(p.id), p.title, p.body, "}">>

RECURSIVE JoinPosts(_)
JoinPosts(s) ==
    IF s = <<>> THEN <<>>
    ELSE IF Len(s) = 1 THEN PostText(s[1])
    ELSE PostText(s[1]) \o <<",">> \o JoinPosts(Tail(s))

JSONStringify(s) == <<"[">> \o JoinPosts(s) \o <<"]">>

IsPostText(t) ==
    /\ Len(t) = 5
    /\ t[1] = "{"
    /\ t[2] \in {"0", "1"}
    /\ t[3] \in Titles
    /\ t[4] = "yoo"
    /\ t[5] = "}"

ReadPost(t) == [id |-> StrId(t[2]), title |-> t[3], body |-> t[4]]

SyntaxError == [ok |-> FALSE, val |-> Undefined]

RECURSIVE ParseElements(_)
ParseElements(t) ==
    IF Len(t) < 5 \/ ~IsPostText(SubSeq(t, 1, 5)) THEN [ok |-> FALSE, items |-> <<>>]
    ELSE IF Len(t) = 5 THEN [ok |-> TRUE, items |-> <<ReadPost(t)>>]
    ELSE IF t[6] # "," THEN [ok |-> FALSE, items |-> <<>>]
    ELSE LET rest == ParseElements(SubSeq(t, 7, Len(t)))
         IN  IF rest.ok
             THEN [ok |-> TRUE, items |-> <<ReadPost(t)>> \o rest.items]
             ELSE [ok |-> FALSE, items |-> <<>>]

JSONParse(t) ==
    IF t = <<"null">> THEN [ok |-> TRUE, val |-> Null]
    ELSE IF Len(t) < 2 \/ t[1] # "[" \/ t[Len(t)] # "]" THEN SyntaxError
    ELSE IF Len(t) = 2 THEN [ok |-> TRUE, val |-> Arr(<<>>)]
    ELSE LET e == ParseElements(SubSeq(t, 2, Len(t) - 1))
         IN  IF e.ok THEN [ok |-> TRUE, val |-> Arr(e.items)] ELSE SyntaxError

----------------------------------------------------------------------------
(* localStorage *)

Absent == [present |-> FALSE, text |-> <<>>]

Item(text) == [present |-> TRUE, text |-> text]

\* !response: null and the empty string are both falsy
Falsy(item) == ~item.present \/ item.text = <<>>

\* localStorage.getItem("posts") ?? "[]"
OrEmptyList(item) == IF item.present THEN item.text ELSE <<"[", "]">>

----------------------------------------------------------------------------
(* The functions the hooks hand to the library *)

Resolve(v) == [ok |-> TRUE, val |-> v, msg |-> "", init |-> FALSE]

Reject(m) == [ok |-> FALSE, val |-> Undefined, msg |-> m, init |-> FALSE]

NoOutcome == Resolve(Undefined)

\* usePosts queryFn without the first-run setItem
UsePostsQueryFnNoInit(item) ==
    IF Falsy(item) THEN Resolve(Arr(<<>>))
    ELSE LET r == JSONParse(item.text)
         IN  IF r.ok THEN Resolve(r.val) ELSE Reject("SyntaxError: Unexpected token")

\* usePosts queryFn; init marks the branch that goes on to setItem("posts", "[]")
UsePostsQueryFn(item) ==
    IF Falsy(item)
    THEN [ok |-> TRUE, val |-> Arr(<<>>), msg |-> "", init |-> TRUE]
    ELSE LET r == JSONParse(item.text)
         IN  IF r.ok THEN Resolve(r.val) ELSE Reject("SyntaxError: Unexpected token")

\* posts.find((post) => post.id === postId)
RECURSIVE Find(_, _)
Find(posts, id) ==
    IF posts = <<>> THEN Undefined
    ELSE IF Head(posts).id = id THEN Obj(Head(posts))
    ELSE Find(Tail(posts), id)

\* usePost queryFn that searches an empty list when the key is absent
UsePostQueryFnLenient(item, id) ==
    IF Falsy(item) THEN Resolve(Undefined)
    ELSE LET r == JSONParse(item.text)
         IN  IF ~r.ok THEN Reject("SyntaxError: Unexpected token")
             ELSE IF r.val.kind # "array"
             THEN Reject("TypeError: Cannot read properties of null")
             ELSE Resolve(Find(r.val.items, id))

\* usePost queryFn
UsePostQueryFn(item, id) ==
    IF Falsy(item) THEN Reject("No posts yet")
    ELSE LET r == JSONParse(item.text)
         IN  IF ~r.ok THEN Reject("SyntaxError: Unexpected token")
             ELSE IF r.val.kind # "array"
             THEN Reject("TypeError: Cannot read properties of null")
             ELSE Resolve(Find(r.val.items, id))

\* enabled: postId > -1
EnabledNonNegative(id) == id > NoSelection

\* enabled: !!postId
Enabled(id) == id # 0

\* response.unshift(newPost)
PushFront(response, newPost) == <<newPost>> \o response

\* response.push(newPost)
Push(response, newPost) == Append(response, newPost)

\* useAddPost mutationFn with response.concat(newPost), which leaves response as read
MutationFnReadConcat(item, newPost) ==
    LET r == JSONParse(OrEmptyList(item))
    IN  IF ~r.ok THEN Reject("SyntaxError: Unexpected token")
        ELSE IF r.val.kind # "array"
        THEN Reject("TypeError: Cannot read properties of null")
        ELSE Resolve(Arr(r.val.items))

\* useAddPost mutationFn up to and including the push
MutationFnRead(item, newPost) ==
    LET r == JSONParse(OrEmptyList(item))
    IN  IF ~r.ok THEN Reject("SyntaxError: Unexpected token")
        ELSE IF r.val.kind # "array"
        THEN Reject("TypeError: Cannot read properties of null")
        ELSE Resolve(Arr(Push(r.val.items, newPost)))

\* an updater that drops the cached list: () => [post]
UpdaterReplace(posts, post) == Arr(<<post>>)

\* the updater of onSuccess: (posts) => [...(posts ?? []), post]
Updater(posts, post) ==
    IF posts.kind = "array" THEN Arr(Append(posts.items, post)) ELSE Arr(<<post>>)

----------------------------------------------------------------------------
(* Cache entries as the query library keeps them *)

FreshEntry ==
    [status |-> "pending", data |-> Undefined, error |-> "",
     fetchStatus |-> "idle", failureCount |-> 0]

StartFetch(e) == [e EXCEPT !.fetchStatus = "fetching", !.failureCount = 0]

\* a rejected queryFn is run again until the default retry count is used up
Retries(e, out) == ~out.ok /\ e.failureCount < DefaultRetry

\* what the library makes of a settled queryFn
Settle(e, out) ==
    IF out.ok /\ out.val # Undefined
    THEN [status |-> "success", data |-> out.val, error |-> "",
          fetchStatus |-> "idle", failureCount |-> 0]
    ELSE IF out.ok
    THEN [e EXCEPT !.status = "error", !.error = "data is undefined",
                   !.fetchStatus = "idle"]
    ELSE IF Retries(e, out)
    THEN [e EXCEPT !.failureCount = e.failureCount + 1]
    ELSE [e EXCEPT !.status = "error", !.error = out.msg, !.fetchStatus = "idle"]

\* queryClient.setQueryData(["posts"], updater)
SetQueryData(e, post) ==
    [e EXCEPT !.status = "success", !.data = Updater(e.data, post), !.error = ""]

----------------------------------------------------------------------------
(* What the two screens render *)

\* Posts, lines 80-114
PostsView(t) ==
    LET q == postsQuery[t]
    IN  IF q.status = "pending" THEN [shows |-> "Loading...", message |-> ""]
        ELSE IF q.status = "error" THEN [shows |-> "Error", message |-> q.error]
        ELSE IF q.data.kind = "array" THEN [shows |-> "list", message |-> ""]
        ELSE [shows |-> "crash", message |-> ""]

\* Post, lines 175-187
PostView(t) ==
    LET q == postQuery[t][postId[t]]
    IN  IF postId[t] = 0 \/ q.status = "pending"
        THEN [shows |-> "Loading...", message |-> ""]
        ELSE IF q.status = "error" THEN [shows |-> "Error", message |-> q.error]
        ELSE IF q.data.kind = "object" THEN [shows |-> "post", message |-> ""]
        ELSE [shows |-> "crash", message |-> ""]

\* the tab is inside a synchronous stretch that has one more storage call to make
Busy(t) == pcList[t] = "init" \/ pcMut[t] = "got"

\* the Posts screen is on display and has not thrown while rendering
PostsMounted(t) ==
    /\ pcList[t] # "unmounted"
    /\ postId[t] = NoSelection
    /\ PostsView(t).shows # "crash"

----------------------------------------------------------------------------
(* Initial states: the page has loaded and the QueryClient has been        *)
(* restored from its persisted snapshot; App has not mounted Posts yet     *)

GarbageText == <<"oops">>

StoredPost == MkPost(1, "hello 0")

InitItems ==
    {Absent, Item(<<>>), Item(<<"[", "]">>), Item(GarbageText), Item(<<"null">>),
     Item(JSONStringify(<<StoredPost>>))}

EmptyItems == {Absent, Item(<<"[", "]">>)}

RestoredEntry == [FreshEntry EXCEPT !.status = "success", !.data = Arr(<<StoredPost>>)]

IdleMutation == [status |-> "idle", variables |-> NoPost, response |-> <<>>]

InitWith(items, entries) ==
    /\ storage \in items
    /\ \E e \in entries :
          /\ postsQuery = [t \in Tabs |-> IF t = FirstTab THEN e ELSE FreshEntry]
          /\ hist = [store0 |-> storage, restored |-> e # FreshEntry,
                     added |-> <<>>, cleared |-> FALSE]
    /\ postQuery = [t \in Tabs |-> [i \in Ids |-> FreshEntry]]
    /\ pcList = [t \in Tabs |-> "unmounted"]
    /\ resList = [t \in Tabs |-> NoOutcome]
    /\ pcPost = [t \in Tabs |-> [i \in Ids |-> "idle"]]
    /\ resPost = [t \in Tabs |-> [i \in Ids |-> NoOutcome]]
    /\ mutation = [t \in Tabs |-> IdleMutation]
    /\ pcMut = [t \in Tabs |-> "idle"]
    /\ postId = [t \in Tabs |-> NoSelection]

Init == InitWith(InitItems, {FreshEntry, RestoredEntry})

InitTabs == InitWith(EmptyItems \cup {Item(GarbageText)}, {FreshEntry})

InitEnv == InitWith({Item(GarbageText), Item(JSONStringify(<<StoredPost>>))}, {FreshEntry})

----------------------------------------------------------------------------
(* usePosts *)

\* the library calls the queryFn: line 35 and the branch taken at line 36
RunListFn(t) ==
    LET out == UsePostsQueryFn(storage)
    IN  /\ resList' = [resList EXCEPT ![t] = out]
        /\ pcList' = [pcList EXCEPT ![t] = IF out.init THEN "init" ELSE "await"]

\* the library calls the queryFn of usePost: lines 139-145
RunPostFn(t, id) ==
    /\ resPost' = [resPost EXCEPT ![t][id] = UsePostQueryFn(storage, id)]
    /\ pcPost' = [pcPost EXCEPT ![t][id] = "await"]

\* App renders Posts for the first time; usePosts starts its fetch
Mount(t) ==
    /\ pcList[t] = "unmounted"
    /\ postsQuery' = [postsQuery EXCEPT ![t] = StartFetch(@)]
    /\ RunListFn(t)
    /\ UNCHANGED <<storage, postQuery, pcPost, resPost, mutation, pcMut, postId,
                   hist>>

\* the library refetches the mounted query on window focus or reconnect
Refetch(t) ==
    /\ ~Busy(t)
    /\ IF postId[t] = NoSelection
       THEN /\ PostsMounted(t)
            /\ pcList[t] = "idle"
            /\ postsQuery' = [postsQuery EXCEPT ![t] = StartFetch(@)]
            /\ RunListFn(t)
            /\ UNCHANGED <<postQuery, pcPost, resPost>>
       ELSE /\ Enabled(postId[t])
            /\ pcPost[t][postId[t]] = "idle"
            /\ postQuery' = [postQuery EXCEPT ![t][postId[t]] = StartFetch(@)]
            /\ RunPostFn(t, postId[t])
            /\ UNCHANGED <<postsQuery, pcList, resList>>
    /\ UNCHANGED <<storage, mutation, pcMut, postId, hist>>

\* the retry delay has passed and the library calls the queryFn again
ListRetry(t) ==
    /\ pcList[t] = "retry"
    /\ ~Busy(t)
    /\ RunListFn(t)
    /\ UNCHANGED <<storage, postsQuery, postQuery, pcPost, resPost, mutation,
                   pcMut, postId, hist>>

\* queryFn, lines 39-40
ListInit(t) ==
    /\ pcList[t] = "init"
    /\ storage' = Item(<<"[", "]">>)
    /\ pcList' = [pcList EXCEPT ![t] = "await"]
    /\ UNCHANGED <<postsQuery, postQuery, resList, pcPost, resPost, mutation,
                   pcMut, postId, hist>>

\* the promise of the queryFn settles and the library updates the entry
ListSettle(t) ==
    /\ pcList[t] = "await"
    /\ ~Busy(t)
    /\ postsQuery' = [postsQuery EXCEPT ![t] = Settle(@, resList[t])]
    /\ pcList' = [pcList EXCEPT ![t] =
                    IF Retries(postsQuery[t], resList[t]) THEN "retry" ELSE "idle"]
    /\ resList' = [resList EXCEPT ![t] = NoOutcome]
    /\ UNCHANGED <<storage, postQuery, pcPost, resPost, mutation, pcMut, postId,
                   hist>>

----------------------------------------------------------------------------
(* useAddPost *)

InFlight == Cardinality({t \in Tabs : pcMut[t] = "got"})

\* click on "ANOTHA ONE": mutate(), then mutationFn lines 51-54
Mutate(t, newPost) ==
    /\ PostsMounted(t)
    /\ ~Busy(t)
    /\ mutation[t].status # "pending"
    /\ Len(hist.added) + InFlight < MaxAdds
    /\ LET out == MutationFnRead(storage, newPost)
       IN  IF out.ok
           THEN /\ mutation' = [mutation EXCEPT ![t] =
                      [status |-> "pending", variables |-> newPost,
                       response |-> out.val.items]]
                /\ pcMut' = [pcMut EXCEPT ![t] = "got"]
           ELSE /\ mutation' = [mutation EXCEPT ![t] =
                      [status |-> "error", variables |-> newPost, response |-> <<>>]]
                /\ pcMut' = pcMut
    /\ UNCHANGED <<storage, postsQuery, postQuery, pcList, resList, pcPost,
                   resPost, postId, hist>>

\* mutationFn lines 55-56
MutSet(t) ==
    /\ pcMut[t] = "got"
    /\ storage' = Item(JSONStringify(mutation[t].response))
    /\ pcMut' = [pcMut EXCEPT ![t] = "resolved"]
    /\ hist' = [hist EXCEPT !.added = Append(@, mutation[t].variables)]
    /\ UNCHANGED <<postsQuery, postQuery, pcList, resList, pcPost, resPost,
                   mutation, postId>>

\* onSuccess that also removes the cached ["post", id] entry of the added post
OnSuccessRemoving(t) ==
    /\ pcMut[t] = "resolved"
    /\ ~Busy(t)
    /\ postsQuery' = [postsQuery EXCEPT ![t] = SetQueryData(@, mutation[t].variables)]
    /\ postQuery' = [postQuery EXCEPT ![t][mutation[t].variables.id] = FreshEntry]
    /\ mutation' = [mutation EXCEPT ![t].status = "success"]
    /\ pcMut' = [pcMut EXCEPT ![t] = "idle"]
    /\ UNCHANGED <<storage, pcList, resList, pcPost, resPost, postId, hist>>

\* onSuccess, lines 58-62
OnSuccess(t) ==
    /\ pcMut[t] = "resolved"
    /\ ~Busy(t)
    /\ postsQuery' = [postsQuery EXCEPT ![t] = SetQueryData(@, mutation[t].variables)]
    /\ mutation' = [mutation EXCEPT ![t].status = "success"]
    /\ pcMut' = [pcMut EXCEPT ![t] = "idle"]
    /\ UNCHANGED <<storage, postQuery, pcList, resList, pcPost, resPost, postId,
                   hist>>

----------------------------------------------------------------------------
(* Navigation and usePost *)

ListedIds(t) ==
    {postsQuery[t].data.items[i].id : i \in 1..Len(postsQuery[t].data.items)}

\* click on a post link, line 93; Post mounts and usePost fetches if enabled
SelectPost(t, id) ==
    /\ PostsMounted(t)
    /\ ~Busy(t)
    /\ PostsView(t).shows = "list"
    /\ id \in ListedIds(t)
    /\ postId' = [postId EXCEPT ![t] = id]
    /\ IF Enabled(id) /\ pcPost[t][id] = "idle"
       THEN /\ postQuery' = [postQuery EXCEPT ![t][id] = StartFetch(@)]
            /\ RunPostFn(t, id)
       ELSE UNCHANGED <<pcPost, postQuery, resPost>>
    /\ UNCHANGED <<storage, postsQuery, pcList, resList, mutation, pcMut, hist>>

\* click on "Back", line 168; Posts mounts and usePosts refetches
Back(t) ==
    /\ postId[t] # NoSelection
    /\ ~Busy(t)
    /\ postId' = [postId EXCEPT ![t] = NoSelection]
    /\ IF pcList[t] = "idle"
       THEN /\ postsQuery' = [postsQuery EXCEPT ![t] = StartFetch(@)]
            /\ RunListFn(t)
       ELSE UNCHANGED <<pcList, postsQuery, resList>>
    /\ UNCHANGED <<storage, postQuery, pcPost, resPost, mutation, pcMut, hist>>

\* the retry delay has passed and the library calls the queryFn again
PostRetry(t, id) ==
    /\ pcPost[t][id] = "retry"
    /\ ~Busy(t)
    /\ RunPostFn(t, id)
    /\ UNCHANGED <<storage, postsQuery, postQuery, pcList, resList, mutation,
                   pcMut, postId, hist>>

PostSettle(t, id) ==
    /\ pcPost[t][id] = "await"
    /\ ~Busy(t)
    /\ postQuery' = [postQuery EXCEPT ![t][id] = Settle(@, resPost[t][id])]
    /\ pcPost' = [pcPost EXCEPT ![t][id] =
                    IF Retries(postQuery[t][id], resPost[t][id]) THEN "retry" ELSE "idle"]
    /\ resPost' = [resPost EXCEPT ![t][id] = NoOutcome]
    /\ UNCHANGED <<storage, postsQuery, pcList, resList, mutation, pcMut, postId,
                   hist>>

----------------------------------------------------------------------------
(* The browser: the user clears the site's storage while the page is open  *)

ClearStorage ==
    /\ storage.present
    /\ ~hist.cleared
    /\ \A t \in Tabs : ~Busy(t)
    /\ storage' = Absent
    /\ hist' = [hist EXCEPT !.cleared = TRUE]
    /\ UNCHANGED <<postsQuery, postQuery, pcList, resList, pcPost, resPost,
                   mutation, pcMut, postId>>

----------------------------------------------------------------------------
(* Specifications *)

\* what a tab does while it shows the Posts screen
PostsNext(t) ==
    \/ Mount(t)
    \/ ListRetry(t)
    \/ ListInit(t)
    \/ ListSettle(t)
    \/ \E p \in NewPosts : Mutate(t, p)
    \/ MutSet(t)
    \/ OnSuccess(t)

\* focus events, navigation and the Post screen
DetailNext(t) ==
    \/ Refetch(t)
    \/ \E i \in Ids : SelectPost(t, i)
    \/ Back(t)
    \/ \E i \in Ids : PostRetry(t, i)
    \/ \E i \in Ids : PostSettle(t, i)

\* one tab
Next == PostsNext(FirstTab) \/ DetailNext(FirstTab)

Spec == Init /\ [][Next]_vars

\* one tab, and the storage may be cleared under it
NextEnv == Next \/ ClearStorage

SpecEnv == InitEnv /\ [][NextEnv]_vars

\* two tabs on one localStorage, both staying on the Posts screen
NextTabs == \E t \in Tabs : PostsNext(t)

SpecTabs == InitTabs /\ [][NextTabs]_vars

----------------------------------------------------------------------------
(* Vocabulary of the properties *)

\* the item is the serialized form of a list of posts
ValidCollection(item) ==
    /\ item.present
    /\ JSONParse(item.text).ok
    /\ JSONParse(item.text).val.kind = "array"

\* the list an item holds; an absent item holds none
CollectionOf(item) ==
    IF ValidCollection(item) THEN JSONParse(item.text).val.items ELSE <<>>

ListGetStep(t) ==
    /\ pcList[t] \in {"unmounted", "idle", "retry"}
    /\ pcList'[t] \in {"init", "await"}

ListInitStep(t) == pcList[t] = "init" /\ pcList'[t] = "await"

MutSetStep(t) == pcMut[t] = "got" /\ pcMut'[t] = "resolved"

OnSuccessStep(t) == pcMut[t] = "resolved" /\ pcMut'[t] = "idle"

AddPostStep(t) == pcMut'[t] # pcMut[t] \/ mutation'[t] # mutation[t]

PostGetStep(t, i) == pcPost[t][i] \in {"idle", "retry"} /\ pcPost'[t][i] = "await"

PostSettleStep(t, i) == pcPost[t][i] = "await" /\ pcPost'[t][i] # "await"

\* nothing of the tab is in flight
Quiescent(t) ==
    /\ pcList[t] = "idle"
    /\ postsQuery[t].fetchStatus = "idle"
    /\ pcMut[t] = "idle"
    /\ mutation[t].status # "pending"

----------------------------------------------------------------------------
(* C1: starting from an empty or absent stored collection, after N         *)
(* successful Add Post operations of one tab the stored collection is      *)
(* exactly the N added posts in the order they were added, and each Add    *)
(* Post keeps every record already stored, in place and unchanged, and     *)
(* puts the new post behind them.                                          *)

C1_StoredIsAdded ==
    hist.store0 \in EmptyItems =>
        /\ CollectionOf(storage) = hist.added
        /\ Len(hist.added) > 0 => storage = Item(JSONStringify(hist.added))

C1_AddKeepsStored ==
    \A t \in Tabs :
        MutSetStep(t) =>
            /\ ValidCollection(storage')
            /\ CollectionOf(storage') = CollectionOf(storage) \o <<mutation[t].variables>>

C1_AddsAppendInOrder == [](C1_StoredIsAdded) /\ [][C1_AddKeepsStored]_vars

C1_Witness ==
    /\ hist.store0 \in EmptyItems
    /\ Len(hist.added) >= 2
    /\ hist.added[1] # hist.added[2]
    /\ storage = Item(JSONStringify(hist.added))

----------------------------------------------------------------------------
(* C2: the success callback of Add Post of p sets the cached ["posts"]     *)
(* data to the list cached just before it (the empty list if nothing was   *)
(* cached) with p appended last, without starting a fetch, running the     *)
(* query function or touching the store.                                   *)

C2_OptimisticAppend ==
    [][\A t \in Tabs :
          OnSuccessStep(t) =>
              /\ postsQuery[t].data.kind \in {"array", "undefined"}
              /\ postsQuery'[t].data =
                    Arr(postsQuery[t].data.items \o <<mutation[t].variables>>)
              /\ postsQuery'[t].status = "success"
              /\ postsQuery'[t].fetchStatus = postsQuery[t].fetchStatus
              /\ pcList'[t] = pcList[t]
              /\ resList'[t] = resList[t]
              /\ storage' = storage]_vars

C2_Witness ==
    /\ mutation[FirstTab].status = "success"
    /\ pcList[FirstTab] = "idle"
    /\ postsQuery[FirstTab].data.kind = "array"
    /\ Len(postsQuery[FirstTab].data.items) >= 2
    /\ postsQuery[FirstTab].data.items[Len(postsQuery[FirstTab].data.items)]
          = mutation[FirstTab].variables
    /\ postsQuery[FirstTab].data.items[1] # mutation[FirstTab].variables

----------------------------------------------------------------------------
(* C3: with two tabs adding on one store the last writer wins: the store   *)
(* always ends with the post written last and never holds more posts than  *)
(* were added, and it can hold fewer, since a write replaces the store by  *)
(* what its tab read plus its own post.                                    *)

C3_LastWriterWins ==
    (hist.store0 = Item(<<"[", "]">>) /\ hist.added # <<>>) =>
        /\ ValidCollection(storage)
        /\ Len(CollectionOf(storage)) >= 1
        /\ Len(CollectionOf(storage)) <= Len(hist.added)
        /\ CollectionOf(storage)[Len(CollectionOf(storage))]
              = hist.added[Len(hist.added)]

\* both tabs added successfully and only the second writer's post is stored
C3_Witness ==
    /\ hist.store0 = Item(<<"[", "]">>)
    /\ \A t \in Tabs : mutation[t].status = "success"
    /\ Len(hist.added) = 2
    /\ hist.added[1] # hist.added[2]
    /\ {mutation[t].variables : t \in Tabs} = {hist.added[1], hist.added[2]}
    /\ storage = Item(JSONStringify(<<hist.added[2]>>))

----------------------------------------------------------------------------
(* C4: List Posts run on an absent key returns the empty list and leaves   *)
(* "[]" in the store; run on a valid serialized collection it returns that *)
(* collection and writes nothing; the list returned becomes the cached     *)
(* data in success status.                                                 *)

C4_ListPosts ==
    [][\A t \in Tabs :
          /\ (ListGetStep(t) /\ ~storage.present) =>
                /\ resList'[t].ok
                /\ resList'[t].val = Arr(<<>>)
                /\ pcList'[t] = "init"
          /\ ListInitStep(t) => storage' = Item(<<"[", "]">>)
          /\ (ListGetStep(t) /\ ValidCollection(storage)) =>
                /\ resList'[t].ok
                /\ resList'[t].val.kind = "array"
                /\ JSONStringify(resList'[t].val.items) = storage.text
                /\ pcList'[t] = "await"
                /\ storage' = storage
          /\ (pcList[t] = "await" /\ pcList'[t] = "idle" /\ resList[t].ok) =>
                /\ postsQuery'[t].status = "success"
                /\ postsQuery'[t].data = resList[t].val
                /\ storage' = storage]_vars

C4_Witness ==
    /\ hist.store0 = Absent
    /\ pcList[FirstTab] = "await"
    /\ postsQuery[FirstTab].fetchStatus = "fetching"
    /\ resList[FirstTab].val = Arr(<<>>)
    /\ resList[FirstTab].init
    /\ storage = Item(<<"[", "]">>)

----------------------------------------------------------------------------
(* C5: Get Post By Id(x) run on a valid stored collection ends in success  *)
(* status with the first stored record whose id is x, and in success       *)
(* status with an undefined result when no stored record has id x, and it  *)
(* never writes the store.                                                 *)

Matches(s, x) == {k \in 1..Len(s) : s[k].id = x}

FirstMatch(s, x) ==
    IF Matches(s, x) = {} THEN Undefined
    ELSE Obj(s[CHOOSE k \in Matches(s, x) : \A j \in Matches(s, x) : k <= j])

C5_GetPostById ==
    [][\A t \in Tabs : \A x \in Ids :
          /\ (PostGetStep(t, x) /\ ValidCollection(storage)) =>
                /\ resPost'[t][x].ok
                /\ resPost'[t][x].val = FirstMatch(CollectionOf(storage), x)
                /\ storage' = storage
          /\ (PostSettleStep(t, x) /\ resPost[t][x].ok) =>
                /\ postQuery'[t][x].status = "success"
                /\ postQuery'[t][x].data = resPost[t][x].val
                /\ storage' = storage]_vars

----------------------------------------------------------------------------
(* C6: the query of post id 0 is disabled: its query function never runs,  *)
(* its entry never leaves pending, and while post 0 is selected the Post   *)
(* screen shows "Loading...".                                              *)

C6_ZeroNeverFetched ==
    \A t \in Tabs :
        /\ pcPost[t][0] = "idle"
        /\ resPost[t][0] = NoOutcome
        /\ postQuery[t][0].status = "pending"
        /\ postQuery[t][0].fetchStatus = "idle"
        /\ postId[t] = 0 => PostView(t).shows = "Loading..."

C6_Witness ==
    /\ postId[FirstTab] = 0
    /\ postId[FirstTab] > NoSelection
    /\ ValidCollection(storage)
    /\ Matches(CollectionOf(storage), 0) # {}

----------------------------------------------------------------------------
(* C7: Get Post By Id run with a truthy id while the key "posts" is absent *)
(* throws "No posts yet" and writes nothing; a run that throws never puts  *)
(* the entry in success status, and once the retries are used up the entry *)
(* is in error status with the message thrown.                             *)

C7_AbsentStoreIsError ==
    [][\A t \in Tabs : \A x \in Ids :
          /\ (PostGetStep(t, x) /\ ~storage.present) =>
                /\ x # 0
                /\ resPost'[t][x] = Reject("No posts yet")
                /\ storage' = storage
          /\ (PostSettleStep(t, x) /\ resPost[t][x] = Reject("No posts yet")) =>
                /\ postQuery'[t][x].data = postQuery[t][x].data
                /\ postQuery'[t][x].status \in {postQuery[t][x].status, "error"}
                /\ pcPost'[t][x] = "idle" =>
                      /\ postQuery'[t][x].status = "error"
                      /\ postQuery'[t][x].error = "No posts yet"
                /\ storage' = storage]_vars

C7_Witness ==
    /\ ~storage.present
    /\ pcPost[FirstTab][1] = "idle"
    /\ postQuery[FirstTab][1].status = "error"
    /\ postQuery[FirstTab][1].error = "No posts yet"
    /\ postQuery[FirstTab][1].data = Undefined
    /\ PostView(FirstTab) = [shows |-> "Error", message |-> "No posts yet"]

----------------------------------------------------------------------------
(* C8: List Posts run while the key "posts" holds text that is not a valid *)
(* serialized collection throws with a non-empty message, never ends in    *)
(* success status, and leaves the stored text unchanged.                   *)

C8_InvalidTextIsError ==
    [][\A t \in Tabs :
          (ListGetStep(t) /\ storage.present /\ ~ValidCollection(storage)) =>
              /\ ~resList'[t].ok
              /\ resList'[t].msg # ""
              /\ pcList'[t] = "await"
              /\ storage' = storage]_vars

----------------------------------------------------------------------------
(* C9: no step of Add Post, successful or failed, changes the data or the  *)
(* status of any ["post", id] entry.                                       *)

C9_AddLeavesPostEntries ==
    [][\A t \in Tabs :
          AddPostStep(t) =>
              /\ postQuery' = postQuery
              /\ pcPost' = pcPost
              /\ resPost' = resPost]_vars

\* an add has succeeded while a ["post", id] entry holds a fetched post
C9_Witness ==
    /\ mutation[FirstTab].status = "success"
    /\ mutation[FirstTab].variables.id = 1
    /\ postQuery[FirstTab][1].status = "success"
    /\ postQuery[FirstTab][1].data.kind = "object"
    /\ Len(CollectionOf(storage)) >= 2

----------------------------------------------------------------------------
(* C10: in one tab, whenever no fetch and no mutation is in flight and the *)
(* ["posts"] entry holds data, the cached list equals the stored           *)
(* collection.                                                             *)

====
